---- MODULE Spec2Model ----
(***************************************************************************)
(* A model of the bounded Voronoi diagram of src/Voronoi.py with the       *)
(* angular sort of src/rotational_sort.py and the vector primitive of      *)
(* src/vect_store.py.                                                      *)
(*                                                                         *)
(* Numbers.  The program computes in floating point; the model computes    *)
(* the same expressions over exact rationals <<n, d>> (d > 0, lowest       *)
(* terms), so that every comparison the code makes (A == 0, x0 <= p <= x1, *)
(* min of the distances, the order of the angles) is decided exactly.      *)
(* A point is a pair <<x, y>> of rationals.  An optional value (Python's   *)
(* None or a value, an attribute that may not be set yet) is the empty     *)
(* sequence or a one-element sequence.                                     *)
(*                                                                         *)
(* Local variables of the code are bound with With(value, LAMBDA name :    *)
(* ...), the value being computed once, as an assignment does.             *)
(***************************************************************************)
EXTENDS Integers, Sequences, FiniteSets, TLC

(***************************************************************************)
(* Program constants and the bounds of the model.                          *)
(***************************************************************************)
XLim == 10          \* xlim of the script
YLim == 10          \* ylim of the script
OuterScale == 10    \* length given to the outward vector

MaxSites == 4       \* most generator points of an initial diagram
MaxRelax == 2       \* most lloyds_relax calls in a behaviour
MaxReads == 1       \* most sweeps over Regions.centroids in a behaviour
MaxDen == 3         \* centroids are read while the numbers involved are k/d, d <= MaxDen
MaxPts == 4         \* most points of a stand-alone Region
MaxReq == 2         \* most centroid/area requests on a stand-alone Region
MaxSortPts == 3     \* most points given to rotational_sort on its own
MaxCoord == 2       \* largest component of a vector used on its own

\* name = value; the rest of the computation
With(value, Rest(_)) == Rest(value)

(***************************************************************************)
(* Exact arithmetic standing for the float arithmetic of the sources.      *)
(***************************************************************************)
Abs(n) == IF n < 0 THEN -n ELSE n

Sgn(n) == IF n < 0 THEN -1 ELSE IF n > 0 THEN 1 ELSE 0

RECURSIVE GCD(_, _)
GCD(a, b) == IF b = 0 THEN a ELSE GCD(b, a % b)

Lowest(n, d, g) == <<n \div g, d \div g>>

Rat(n, d) ==
    IF d < 0 THEN Lowest(-n, -d, GCD(Abs(n), -d)) ELSE Lowest(n, d, GCD(Abs(n), d))

I(n) == <<n, 1>>

AddOver(a, b, g) == Rat(a[1] * (b[2] \div g) + b[1] * (a[2] \div g), (a[2] \div g) * b[2])

RAdd(a, b) == AddOver(a, b, GCD(a[2], b[2]))

RNeg(a) == <<-a[1], a[2]>>

RSub(a, b) == RAdd(a, RNeg(b))

MulOver(a, b, g1, g2) == <<(a[1] \div g1) * (b[1] \div g2), (a[2] \div g2) * (b[2] \div g1)>>

RMul(a, b) ==
    IF a[1] = 0 \/ b[1] = 0 THEN <<0, 1>>
    ELSE MulOver(a, b, GCD(Abs(a[1]), b[2]), GCD(Abs(b[1]), a[2]))

RInv(a) == IF a[1] < 0 THEN <<-a[2], -a[1]>> ELSE <<a[2], a[1]>>

RDiv(a, b) == RMul(a, RInv(b))

\* the order of n1/d1 and n2/d2 (n >= 0, d > 0) as -1, 0 or 1, by integer
\* parts and remainders
RECURSIVE PosCmp(_, _, _, _)
PosCmp(n1, d1, n2, d2) ==
    IF n1 \div d1 # n2 \div d2 THEN Sgn((n1 \div d1) - (n2 \div d2))
    ELSE IF n1 % d1 = 0 \/ n2 % d2 = 0 THEN Sgn((n1 % d1) - (n2 % d2))
    ELSE -PosCmp(d1, n1 % d1, d2, n2 % d2)

RCmp(a, b) ==
    IF Sgn(a[1]) # Sgn(b[1]) THEN Sgn(Sgn(a[1]) - Sgn(b[1]))
    ELSE IF a[1] >= 0 THEN PosCmp(a[1], a[2], b[1], b[2])
    ELSE PosCmp(-b[1], b[2], -a[1], a[2])

RLt(a, b) == RCmp(a, b) < 0

RLe(a, b) == RCmp(a, b) <= 0

RSgn(a) == Sgn(a[1])

RAbs(a) == <<Abs(a[1]), a[2]>>

Zero == <<0, 1>>

\* The components of a Vector are floats (float(v) in the constructor), and
\* a float keeps Precision significant bits.  The numbers <<n, d>> above are
\* of a size at which sums and differences are exact.  <<n, d, FarExponent>>
\* is the float n / d * 2 ** FarExponent: next to it a number <<n, d>> is
\* less than half a unit in the last place, so their sum rounds to the far
\* number, and sums of far numbers are exact.
Precision == 53

FarExponent == Precision + 7

Far(n) == <<n, 1, FarExponent>>

IsFar(a) == Len(a) = 3

FarOf(r) == IF r[1] = 0 THEN Zero ELSE <<r[1], r[2], FarExponent>>

\* a + b on floats
FAdd(a, b) ==
    IF IsFar(a)
    THEN IF IsFar(b) THEN FarOf(RAdd(<<a[1], a[2]>>, <<b[1], b[2]>>)) ELSE a
    ELSE IF IsFar(b) THEN b ELSE RAdd(a, b)

\* a - b on floats
FSub(a, b) == FAdd(a, IF IsFar(b) THEN <<-b[1], b[2], b[3]>> ELSE RNeg(b))

Pt(x, y) == <<I(x), I(y)>>

None == <<>>

Some(v) == <<v>>

\* the sequence s with its elements computed once (a list, not a generator)
List(s) == s \o <<>>

RECURSIVE SumX(_, _)
SumX(ps, k) == IF k = 0 THEN Zero ELSE RAdd(SumX(ps, k - 1), ps[k][1])

RECURSIVE SumY(_, _)
SumY(ps, k) == IF k = 0 THEN Zero ELSE RAdd(SumY(ps, k - 1), ps[k][2])

\* np.mean of the x and of the y coordinates of a non-empty point list
Mean(ps) ==
    <<RDiv(SumX(ps, Len(ps)), I(Len(ps))), RDiv(SumY(ps, Len(ps)), I(Len(ps)))>>

(***************************************************************************)
(* Region and EdgeRegion.  A region is a record: origin, points, edge      *)
(* (the class attribute _edge), id, and area (the attribute _area, not     *)
(* set until a centroid computation with A # 0 stores it).  The id a       *)
(* diagram gives a region is the library's number of it (point_region);    *)
(* the model, which does not number the library's regions, writes the      *)
(* position of the generator for it.                                       *)
(***************************************************************************)
NewRegion(origin, points, edge, id) ==
    [origin |-> origin, points |-> points, edge |-> edge, id |-> id, area |-> None]

\* the shoelace term of the edge from p to q
Shoelace(p, q) == RSub(RMul(p[1], q[2]), RMul(q[1], p[2]))

\* one turn of the loop: the term s of the edge from p to q is added to A
\* and, weighted, to Cx and Cy
AddEdge(acc, p, q, s) ==
    [A |-> RAdd(acc.A, s),
     Cx |-> RAdd(acc.Cx, RMul(RAdd(p[1], q[1]), s)),
     Cy |-> RAdd(acc.Cy, RMul(RAdd(p[2], q[2]), s))]

\* the three accumulators A, Cx, Cy after the first k edges of the list ps
RECURSIVE Accumulate(_, _)
Accumulate(ps, k) ==
    IF k = 0 THEN [A |-> Zero, Cx |-> Zero, Cy |-> Zero]
    ELSE AddEdge(Accumulate(ps, k - 1), ps[k], ps[k + 1], Shoelace(ps[k], ps[k + 1]))

\* Region.centroid: the value returned and the region as the call leaves it.
\* `points` is the region's own list, so the wrap-around point is appended
\* to the region itself, and the mean of the A == 0 branch is taken over
\* the list that already holds it.
Centroid(r) ==
    IF Len(r.points) = 0 THEN [ret |-> None, reg |-> r]
    ELSE With(Append(r.points, r.points[1]), LAMBDA points :
         With(Accumulate(points, Len(points) - 1), LAMBDA acc :
         With(RDiv(acc.A, I(2)), LAMBDA A :
             IF A = Zero
             THEN [ret |-> Some(Mean(points)), reg |-> [r EXCEPT !.points = points]]
             ELSE [ret |-> Some(<<RDiv(acc.Cx, RMul(I(6), A)),
                                  RDiv(acc.Cy, RMul(I(6), A))>>),
                   reg |-> [r EXCEPT !.points = points, !.area = Some(RAbs(A))]])))

\* Region.area: with _area set, its value; otherwise the centroid property
\* is evaluated (with its effects on the region) and its value, a tuple or
\* None, is then called, which raises TypeError.
Area(r) ==
    IF r.area # None THEN [ret |-> r.area, err |-> "", reg |-> r]
    ELSE [ret |-> None, err |-> "TypeError", reg |-> Centroid(r).reg]

\* a test that takes the rectangle without its border
InBoundsStrict(p, x0, x1, y0, y1) ==
    /\ RLt(x0, p[1]) /\ RLt(p[1], x1)
    /\ RLt(y0, p[2]) /\ RLt(p[2], y1)

InBounds(p, x0, x1, y0, y1) ==
    /\ RLe(x0, p[1]) /\ RLe(p[1], x1)
    /\ RLe(y0, p[2]) /\ RLe(p[2], y1)

\* EdgeRegion.add_boundary_point
AddBoundaryPoint(r, point) == [r EXCEPT !.points = Append(r.points, point)]

RECURSIVE Inside(_, _, _, _, _)
Inside(ps, x0, x1, y0, y1) ==
    IF ps = <<>> THEN <<>>
    ELSE IF InBounds(Head(ps), x0, x1, y0, y1)
         THEN <<Head(ps)>> \o Inside(Tail(ps), x0, x1, y0, y1)
         ELSE Inside(Tail(ps), x0, x1, y0, y1)

\* EdgeRegion.remove_outside_points
RemoveOutsidePoints(r, xbounds, ybounds) ==
    [r EXCEPT !.points = Inside(r.points, xbounds[1], xbounds[2], ybounds[1], ybounds[2])]

(***************************************************************************)
(* Vector (src/vect_store.py).  A vector is a record: origin, components,  *)
(* and unit.  With unit = FALSE the components are the vector's own.  With *)
(* unit = TRUE the record stands for normalise() * OuterScale of them: the *)
(* vector OuterScale * components / |components|, whose length is          *)
(* irrational in general and is therefore kept symbolic.  What the code    *)
(* computes from such a vector (signs, zero tests, the solution of the     *)
(* linear system, the order of distances) is computed exactly from the     *)
(* direction.                                                              *)
(***************************************************************************)
Sub(p, q) == List([k \in 1..Len(p) |-> FSub(p[k], q[k])])

Cross2(a, b) == RSub(RMul(a[1], b[2]), RMul(a[2], b[1]))

\* the sign of Cross2(a, b)
CrossSgn(a, b) == RCmp(RMul(a[1], b[2]), RMul(a[2], b[1]))

RECURSIVE SumSquares(_, _)
SumSquares(c, k) == IF k = 0 THEN Zero ELSE RAdd(SumSquares(c, k - 1), RMul(c[k], c[k]))

\* magnitude ** 2
Magnitude2(c) == SumSquares(c, Len(c))

Dist2(p, q) == Magnitude2(Sub(p, q))

\* a from_points that takes the difference the wrong way round
FromPointsBackwards(P, Q) == [origin |-> P, components |-> Sub(P, Q), unit |-> FALSE]

\* the loop of Vector.from_points and the constructor
FromPoints(P, Q) == [origin |-> P, components |-> Sub(Q, P), unit |-> FALSE]

\* Vector.from_points: points of different dimensions raise ValueError
VectorFromPoints(P, Q) ==
    IF Len(P) # Len(Q) THEN [err |-> "ValueError", vec |-> None]
    ELSE [err |-> "", vec |-> Some(FromPoints(P, Q))]

\* Vector.endpoint of a vector that holds its own components; zip stops
\* at the shorter of origin and components
Endpoint(v) ==
    List([k \in 1..(IF Len(v.origin) < Len(v.components) THEN Len(v.origin)
                    ELSE Len(v.components)) |-> FAdd(v.origin[k], v.components[k])])

\* Vector.__add__
VectorAdd(self, other) == VectorFromPoints(Endpoint(other), self.origin)

\* Vector.point_along
PointAlong(v, frac) ==
    List([k \in 1..Len(v.origin) |-> RAdd(v.origin[k], RMul(v.components[k], frac))])

\* UV.cross(Vector(0,0,-1)).normalise()*10 for a two-component UV: the
\* cross product of (x, y, 0) and (0, 0, -1) is (-y, x, 0); normalise
\* divides by the magnitude and raises ZeroDivisionError when it is 0.
Outward(UV) ==
    IF UV.components[1] = Zero /\ UV.components[2] = Zero
    THEN [err |-> "ZeroDivisionError", vec |-> UV]
    ELSE [err |-> "",
          vec |-> [origin |-> <<Zero, Zero, Zero>>,
                   components |-> <<RNeg(UV.components[2]), UV.components[1], Zero>>,
                   unit |-> TRUE]]

\* the sign of a + OuterScale * b / |c|, from a, b, a^2 * |c|^2 and
\* OuterScale^2 * b^2
UnitEndpointSign(a, b, a2, b2) ==
    IF RSgn(a) = 0 THEN RSgn(b)
    ELSE IF RSgn(b) = 0 \/ RSgn(b) = RSgn(a) THEN RSgn(a)
    ELSE IF RLt(b2, a2) THEN RSgn(a)
    ELSE IF a2 = b2 THEN 0
    ELSE RSgn(b)

\* the sign of coordinate k of Vector.endpoint (origin + components)
EndpointSign(v, k) ==
    IF ~v.unit THEN RSgn(RAdd(v.origin[k], v.components[k]))
    ELSE UnitEndpointSign(v.origin[k], v.components[k],
                          RMul(RMul(v.origin[k], v.origin[k]), Magnitude2(v.components)),
                          RMul(I(OuterScale * OuterScale),
                               RMul(v.components[k], v.components[k])))

\* hash(x) of a float component: CPython never returns -1, and gives -2
\* for -1.0 as it does for -2.0; the other numbers of the model have
\* hashes of their own
HashFloat(x) == IF x = <<-1, 1>> THEN <<-2, 1>> ELSE x

\* Vector.__hash__: hash(tuple(self._components)), which is decided by the
\* hashes of the components in their order
Hash(components) == List([k \in 1..Len(components) |-> HashFloat(components[k])])

\* Vector.__eq__ on two vectors
VectorEq(self, other) == Hash(self.components) = Hash(other.components)

\* other * scalar == self: the hashes of the component tuples are compared,
\* so tuples of different lengths are unequal
Scaled(self, other, scalar) ==
    Hash(List([j \in 1..Len(other) |-> RMul(other[j], scalar)])) = Hash(self)

\* Vector.is_parallel on two component tuples
IsParallel(self, other) ==
    IF other[1] # Zero
    THEN [err |-> "", ret |-> Scaled(self, other, RDiv(self[1], other[1]))]
    ELSE IF other[2] # Zero
    THEN [err |-> "", ret |-> Scaled(self, other, RDiv(self[2], other[2]))]
    ELSE [err |-> "ZeroDivisionError", ret |-> FALSE]

\* x = num / det, or None for LinAlgError (singular matrix)
Cramer(num, det) == IF det = Zero THEN None ELSE Some(RDiv(num, det))

\* np.linalg.solve(A, B)[0] for the 2x2 system with columns col1 and col2
Solve(col1, col2, B) ==
    Cramer(Cross2(<<B[1], col2[1]>>, <<B[2], col2[2]>>),
           Cross2(<<col1[1], col2[1]>>, <<col1[2], col2[2]>>))

\* Vector.intersect_boundary, axis 1 for 'x' and 2 for 'y'.  The test
\* vector is dirn * endpoint * 1.2; is_parallel is decided by its
\* direction, so it is given by the sign of the endpoint's coordinate.
IntersectBoundary(v, axis, val) ==
    With(IF axis = 1 THEN <<0, 1>> ELSE <<1, 0>>, LAMBDA dirn :
    With(IsParallel(v.components,
                    List([k \in 1..2 |-> I(dirn[k] * EndpointSign(v, k))])), LAMBDA par :
    With(Solve(<<I(-dirn[1]), I(-dirn[2])>>, SubSeq(v.components, 1, 2),
               List([k \in 1..2 |-> RSub(I((1 - dirn[k]) * val), v.origin[k])])),
         LAMBDA solve :
        IF par.err # "" THEN [err |-> par.err, point |-> None]
        ELSE IF par.ret THEN [err |-> "ValueError", point |-> None]
        ELSE IF solve = None THEN [err |-> "LinAlgError", point |-> None]
        ELSE IF axis = 1 THEN [err |-> "", point |-> Some(<<I(val), solve[1]>>)]
        ELSE [err |-> "", point |-> Some(<<solve[1], I(val)>>)])))

\* Vector.distance_to_origin, squared (the square root keeps the order)
DistanceToOrigin2(v, point) ==
    Magnitude2(List([k \in 1..Len(point) |->
                        RSub(IF k <= Len(v.origin) THEN v.origin[k] ELSE Zero, point[k])]))

(***************************************************************************)
(* rotational_sort (src/rotational_sort.py).  An angle is kept as a key    *)
(* <<h, c>> ordered like the angle the code computes: h = 1 when the point *)
(* is left of the centre (angle 360 - acos), and c falls or rises with the *)
(* cosine so that the key rises with the angle.                            *)
(***************************************************************************)
RECURSIVE MaxY(_, _)
MaxY(ps, k) ==
    IF k = 1 THEN ps[1][2]
    ELSE With(MaxY(ps, k - 1), LAMBDA m : IF RLt(m, ps[k][2]) THEN ps[k][2] ELSE m)

\* the key of the angle between ref_vect (0, m) and d: cos = m*dy/(|m|*|d|),
\* kept as the signed square of the cosine
AngleKey(left, m, d, cos2) ==
    IF left
    THEN <<1, IF RSgn(m) * RSgn(d[2]) < 0 THEN RNeg(cos2) ELSE cos2>>
    ELSE <<0, IF RSgn(m) * RSgn(d[2]) < 0 THEN cos2 ELSE RNeg(cos2)>>

\* ref_vect.angle(Vector.from_points(centre, p)), reflected for x < avg_x
Angle(centre, m, p) ==
    With(Sub(p, centre), LAMBDA d :
        AngleKey(RLt(p[1], centre[1]), m, d, RDiv(RMul(d[2], d[2]), Magnitude2(d))))

AngleLt(a, b) == a[1] < b[1] \/ (a[1] = b[1] /\ RLt(a[2], b[2]))

PointLt(p, q) == RLt(p[1], q[1]) \/ (p[1] = q[1] /\ RLt(p[2], q[2]))

\* (angle i, item i) sorts before (angle j, item j); equal pairs keep
\* their order
Before(angles, itemLt(_, _), i, j) ==
    \/ AngleLt(angles[i], angles[j])
    \/ angles[i] = angles[j] /\ itemLt(i, j)
    \/ angles[i] = angles[j] /\ ~itemLt(i, j) /\ ~itemLt(j, i) /\ i < j

\* the positions 1..n of the pairs in rising order
Ascending(angles, itemLt(_, _)) ==
    List([k \in 1..Len(angles) |->
             CHOOSE i \in 1..Len(angles) :
                 Cardinality({j \in 1..Len(angles) : Before(angles, itemLt, j, i)}) = k - 1])

Reverse(s) == List([k \in 1..Len(s) |-> s[Len(s) + 1 - k]])

\* sorted(zip(angles, items), reverse=ccw): the positions 1..n in sorted
\* order, where itemLt orders the items of equal angles.
SortedOrder(angles, itemLt(_, _), ccw) ==
    IF ccw THEN Reverse(Ascending(angles, itemLt)) ELSE Ascending(angles, itemLt)

\* the sort of pts and ids by the angles
Sorted(pts, ids, ccw, arrays, angles) ==
    IF arrays /\ \E i, j \in 1..Len(pts) : i < j /\ angles[i] = angles[j]
    THEN [err |-> "ValueError", newpoints |-> <<>>, newids |-> <<>>]
    ELSE [err |-> "",
          newpoints |-> With(SortedOrder(angles, LAMBDA i, j : PointLt(pts[i], pts[j]), ccw),
                             LAMBDA order : List([k \in 1..Len(pts) |-> pts[order[k]]])),
          newids |-> With(SortedOrder(angles, LAMBDA i, j : ids[i] < ids[j], ccw),
                          LAMBDA order : List([k \in 1..Len(pts) |-> ids[order[k]]]))]

\* rotational_sort(points, ids, ccw, centre).  centre is None or a point;
\* arrays tells that the points are numpy rows, whose comparison on a tie
\* of angles raises ValueError.  A point at the centre, or max(ypoints) = 0,
\* makes a zero vector, whose angle raises ZeroDivisionError.
RotationalSort(pts, ids, ccw, centre, arrays) ==
    IF Len(pts) = 0 THEN [err |-> "ValueError", newpoints |-> <<>>, newids |-> <<>>]
    ELSE With(IF centre = None THEN Mean(pts) ELSE centre[1], LAMBDA c :
         With(MaxY(pts, Len(pts)), LAMBDA m :
             IF m = Zero \/ \E i \in 1..Len(pts) : pts[i] = c
             THEN [err |-> "ZeroDivisionError", newpoints |-> <<>>, newids |-> <<>>]
             ELSE Sorted(pts, ids, ccw, arrays,
                         List([i \in 1..Len(pts) |-> Angle(c, m, pts[i])]))))

(***************************************************************************)
(* The tessellation primitive, scipy.spatial.Voronoi(points), which the    *)
(* diagram calls and whose output it reads: the Voronoi vertices are the   *)
(* circumcentres of the triples of generators whose circumcircle holds no  *)
(* generator inside; a generator's region is bounded by the vertices of    *)
(* the circles it is on; the region lists -1 when the generator is on the  *)
(* convex hull.  The library fixes neither the vertex a region's list      *)
(* starts with nor its direction around the generator, so every rotation   *)
(* of the cyclic order, either way round, is an output the model allows.   *)
(* Fewer than three generators, or generators all on one line, raise       *)
(* QhullError.  Generators that coincide are not described here: the       *)
(* point lists explored hold them only where QhullError is raised.         *)
(***************************************************************************)
Collinear(a, b, c) == CrossSgn(Sub(b, a), Sub(c, a)) = 0

\* the centre of the circle through a, a + b1 and a + c1
CentreFrom(a, b1, c1, nb, nc, D) ==
    <<RAdd(a[1], RDiv(RSub(RMul(c1[2], nb), RMul(b1[2], nc)), D)),
      RAdd(a[2], RDiv(RSub(RMul(b1[1], nc), RMul(c1[1], nb)), D))>>

Circumcentre(a, b, c) ==
    With(Sub(b, a), LAMBDA b1 :
    With(Sub(c, a), LAMBDA c1 :
        CentreFrom(a, b1, c1, Magnitude2(b1), Magnitude2(c1),
                   RMul(I(2), Cross2(b1, c1)))))

\* the determinant of the in-circle test on u = a - d, v = b - d, w = c - d
InCircleDet(u, v, w) ==
    RAdd(RAdd(RMul(Magnitude2(u), Cross2(v, w)), RMul(Magnitude2(v), Cross2(w, u))),
         RMul(Magnitude2(w), Cross2(u, v)))

\* where d lies with respect to the circle through a, b, c (not collinear):
\* 1 inside, 0 on it, -1 outside
InCircle(a, b, c, d) ==
    RSgn(InCircleDet(Sub(a, d), Sub(b, d), Sub(c, d))) * CrossSgn(Sub(b, a), Sub(c, a))

\* the triples of generators whose circumcircle holds no generator inside
Delaunay(P) ==
    {t \in (1..Len(P)) \X (1..Len(P)) \X (1..Len(P)) :
        /\ t[1] < t[2] /\ t[2] < t[3]
        /\ ~Collinear(P[t[1]], P[t[2]], P[t[3]])
        /\ \A q \in 1..Len(P) : InCircle(P[t[1]], P[t[2]], P[t[3]], P[q]) <= 0}

\* the vertices of vor.regions[vor.point_region[i]]: the circumcentres of
\* the circles of D that generator i is on
RegionVertices(P, D, i) ==
    {Circumcentre(P[t[1]], P[t[2]], P[t[3]]) :
        t \in {u \in D : InCircle(P[u[1]], P[u[2]], P[u[3]], P[i]) = 0}}

\* -1 in vor.regions[vor.point_region[i]]: the region is unbounded
Unbounded(P, i) ==
    \E j \in 1..Len(P) :
        /\ P[j] # P[i]
        /\ \/ \A q \in 1..Len(P) : CrossSgn(Sub(P[j], P[i]), Sub(P[q], P[i])) >= 0
           \/ \A q \in 1..Len(P) : CrossSgn(Sub(P[j], P[i]), Sub(P[q], P[i])) <= 0

\* 0 for a direction v in the upper half turn from the x axis, 1 otherwise
Half(v) == IF RSgn(v[2]) > 0 \/ (RSgn(v[2]) = 0 /\ RSgn(v[1]) > 0) THEN 0 ELSE 1

\* direction a comes before direction b, counter-clockwise from the x axis
Precedes(a, b) ==
    \/ Half(a) < Half(b)
    \/ Half(a) = Half(b) /\ CrossSgn(a, b) > 0

\* the vertices S of a region in counter-clockwise order around generator g
Cyclic(g, S) ==
    List([k \in 1..Cardinality(S) |->
             CHOOSE v \in S :
                 Cardinality({w \in S : Precedes(Sub(w, g), Sub(v, g))}) = k - 1])

Rotations(s) ==
    {List([k \in 1..Len(s) |-> s[((k - 1 + r) % Len(s)) + 1]]) : r \in 0..(Len(s) - 1)}

VertexLists(s) ==
    IF s = <<>> THEN {<<>>} ELSE Rotations(s) \cup {Reverse(t) : t \in Rotations(s)}

RECURSIVE Products(_, _)
Products(sets, k) ==
    IF k = 0 THEN {<<>>}
    ELSE {Append(c, o) : c \in Products(sets, k - 1), o \in sets[k]}

\* scipy.spatial.Voronoi(P): err, or for each generator whether its region
\* is unbounded, and the set `lists` of the outputs the library may give:
\* one vertex list (without -1) for each generator.
ScipyVoronoi(P) ==
    IF Len(P) < 3 THEN [err |-> "QhullError", unbounded |-> <<>>, lists |-> {}]
    ELSE IF \A i, j, q \in 1..Len(P) : Collinear(P[i], P[j], P[q])
    THEN [err |-> "QhullError", unbounded |-> <<>>, lists |-> {}]
    ELSE With(Delaunay(P), LAMBDA D :
        [err |-> "",
         unbounded |-> List([i \in 1..Len(P) |-> Unbounded(P, i)]),
         lists |-> Products(List([i \in 1..Len(P) |->
                                VertexLists(Cyclic(P[i], RegionVertices(P, D, i)))]),
                            Len(P))])

(***************************************************************************)
(* Voronoi._generate_voronoi (src/Voronoi.py).                             *)
(***************************************************************************)
InDomain(p) == InBounds(p, I(0), I(XLim), I(0), I(YLim))

\* a classification that looks at the finite vertices only
ClassifyByVertices(origin, bounds, unbounded, id) ==
    IF bounds = <<>> THEN [err |-> "ValueError", reg |-> NewRegion(origin, bounds, FALSE, id)]
    ELSE [err |-> "",
          reg |-> NewRegion(origin, bounds, \E k \in 1..Len(bounds) : ~InDomain(bounds[k]), id)]

\* the classification of one region: EdgeRegion or Region.  min and max of
\* an empty vertex list raise ValueError.
Classify(origin, bounds, unbounded, id) ==
    IF bounds = <<>> THEN [err |-> "ValueError", reg |-> NewRegion(origin, bounds, FALSE, id)]
    ELSE [err |-> "",
          reg |-> NewRegion(origin, bounds,
                            (\E k \in 1..Len(bounds) : ~InDomain(bounds[k])) \/ unbounded, id)]

\* the indices of the edge regions, in region order
RECURSIVE EdgeIds(_, _)
EdgeIds(regs, k) ==
    IF k = 0 THEN <<>>
    ELSE IF regs[k].edge THEN Append(EdgeIds(regs, k - 1), k) ELSE EdgeIds(regs, k - 1)

\* one turn of the loop over `bounds`: a LinAlgError drops the candidate,
\* any other error leaves the loop
AddIntersect(before, hit) ==
    IF before.err # "" THEN before
    ELSE IF hit.err = "LinAlgError" THEN before
    ELSE IF hit.err # "" THEN [err |-> hit.err, list |-> <<>>]
    ELSE [err |-> "", list |-> Append(before.list, hit.point[1])]

\* the intersects of the outward vector with the first k boundary lines of
\* `bounds`, in their order
RECURSIVE Intersects(_, _, _)
Intersects(outer, bounds, k) ==
    IF k = 0 THEN [err |-> "", list |-> <<>>]
    ELSE AddIntersect(Intersects(outer, bounds, k - 1),
                      IntersectBoundary(outer, bounds[k][1], bounds[k][2]))

\* distances.index(min(distances))
MinId(distances) ==
    CHOOSE i \in 1..Len(distances) :
        /\ \A j \in 1..Len(distances) : RLe(distances[i], distances[j])
        /\ \A j \in 1..(i - 1) : RLt(distances[i], distances[j])

\* intersects[min_id] for the intersects `hits` of the vector outer
Nearest(outer, hits) ==
    IF hits.err # "" THEN [err |-> hits.err, point |-> None]
    ELSE IF hits.list = <<>> THEN [err |-> "ValueError", point |-> None]
    ELSE [err |-> "",
          point |-> Some(hits.list[MinId(List([k \in 1..Len(hits.list) |->
                                  DistanceToOrigin2(outer, hits.list[k])]))])]

\* the boundary intersect chosen for the pair of origins (uo, vo)
ClipPoint(uo, vo) ==
    With(FromPoints(uo, vo), LAMBDA UV :
    With(Outward(UV), LAMBDA out :
        IF out.err # "" THEN [err |-> out.err, point |-> None]
        ELSE With([out.vec EXCEPT !.origin = PointAlong(UV, Rat(1, 2))], LAMBDA outer :
                 Nearest(outer,
                         Intersects(outer, <<<<1, 0>>, <<1, XLim>>, <<2, 0>>, <<2, YLim>>>>,
                                    4)))))

\* a pair loop that does not trim: the region keeps every point it holds
TrimNothing(r) == r

\* the trim of a region of a pair after the clip point was appended
Trim(r) == RemoveOutsidePoints(r, <<I(0), I(XLim)>>, <<I(0), I(YLim)>>)

\* a pair loop that gives the intersect to the first region of the pair only
ClipOnlyU(regs, u, v, point) ==
    [[regs EXCEPT ![u] = AddBoundaryPoint(@, point)]
           EXCEPT ![u] = Trim(@)]

\* u.add_boundary_point(intersect); v.add_boundary_point(intersect) and
\* the two remove_outside_points (u and v are one region when the loop has
\* a single edge region)
Clip(regs, u, v, point) ==
    [[[[regs EXCEPT ![u] = AddBoundaryPoint(@, point)]
             EXCEPT ![v] = AddBoundaryPoint(@, point)]
             EXCEPT ![u] = Trim(@)]
             EXCEPT ![v] = Trim(@)]

\* the loop over the pairs (circle[i], circle[i+1]), from pair k on; done
\* records the pairs handled and the intersect of each
RECURSIVE PairLoop(_, _, _, _)
PairLoop(regs, circle, k, done) ==
    IF k > Len(circle) - 1 THEN [err |-> "", regions |-> regs, cuts |-> done]
    ELSE With(ClipPoint(regs[circle[k]].origin, regs[circle[k + 1]].origin), LAMBDA clip :
             IF clip.err # "" THEN [err |-> clip.err, regions |-> regs, cuts |-> done]
             ELSE PairLoop(Clip(regs, circle[k], circle[k + 1], clip.point[1]), circle, k + 1,
                           Append(done, [u |-> circle[k], v |-> circle[k + 1],
                                         point |-> clip.point[1]])))

\* circle = [region_ids[idx] for idx in mapping]; circle.append(circle[0])
Circle(region_ids, mapping) ==
    Append(List([k \in 1..Len(mapping) |-> region_ids[mapping[k]]]), region_ids[mapping[1]])

\* the outer loop of the edge regions of regs and the pair loop over it
OuterLoop(regs, region_ids) ==
    With(RotationalSort(List([k \in 1..Len(region_ids) |-> regs[region_ids[k]].origin]),
                        List([k \in 1..Len(region_ids) |-> k]), FALSE, None, TRUE),
         LAMBDA sorted :
             IF sorted.err # "" THEN [err |-> sorted.err, regions |-> <<>>, cuts |-> <<>>]
             ELSE PairLoop(regs, Circle(region_ids, sorted.newids), 1, <<>>))

\* _generate_voronoi after the tessellation: P the generators, unbounded
\* and lists what the library returned.  cuts records the pairs of the
\* outer loop with the intersect appended for each.
GenerateRegions(P, unbounded, lists) ==
    With(List([i \in 1..Len(P) |-> Classify(P[i], lists[i], unbounded[i], i)]), LAMBDA made :
        IF \E i \in 1..Len(P) : made[i].err # ""
        THEN [err |-> "ValueError", regions |-> <<>>, cuts |-> <<>>]
        ELSE With(List([i \in 1..Len(P) |-> made[i].reg]), LAMBDA regs :
                 OuterLoop(regs, EdgeIds(regs, Len(P)))))

(***************************************************************************)
(* State.  The diagram: points, regions, voronoi (the generator list the   *)
(* stored tessellation was computed from), pc, err, and the locals pt and  *)
(* idx of a lloyds_relax call in progress.  cuts (the clip point appended  *)
(* for each pair of the last generation) and relaxIn (the regions as the   *)
(* running lloyds_relax call found them) record history.  A stand-alone    *)
(* region: reg, built from the point list orig, with the outcome of the    *)
(* last request on it (ret, rerr, lastOp) and the values its centroid      *)
(* requests returned so far (cents).  A call of a function or method on    *)
(* its own: fn (its name, "" before the call), args (its arguments) and    *)
(* res (what it returned or raised).                                       *)
(***************************************************************************)
VARIABLES points, regions, voronoi, pc, err, pt, idx, nRelax, nReads, cuts, relaxIn,
          reg, orig, ret, rerr, lastOp, cents, nReq, fn, args, res

dvars == <<points, regions, voronoi, pc, err, pt, idx, nRelax, nReads, cuts, relaxIn>>

rvars == <<reg, orig, ret, rerr, lastOp, cents, nReq>>

cvars == <<fn, args, res>>

vars == <<points, regions, voronoi, pc, err, pt, idx, nRelax, nReads, cuts, relaxIn,
          reg, orig, ret, rerr, lastOp, cents, nReq, fn, args, res>>

(***************************************************************************)
(* The diagram: Voronoi(points, XLim, YLim), then sweeps over              *)
(* regions.centroids and lloyds_relax calls.                               *)
(***************************************************************************)
Sites ==
    <<Pt(14, -4), Pt(14, 2), Pt(2, 2), Pt(8, 2), Pt(5, 4), Pt(2, 8), Pt(8, 8), Pt(5, 8)>>

\* the elements of the set S of indices, in rising order
RECURSIVE Rising(_)
Rising(S) ==
    IF S = {} THEN <<>>
    ELSE With(CHOOSE x \in S : \A y \in S : x <= y, LAMBDA m : <<m>> \o Rising(S \ {m}))

\* three generators around a fourth, which lies to the right of their mean
Skewed == <<Pt(1, 1), Pt(3, 4), Pt(5, 1), Pt(4, 2)>>

\* the point lists given to the constructor
Inputs ==
    {List([k \in 1..Cardinality(S) |-> Sites[Rising(S)[k]]]) :
        S \in {T \in SUBSET (1..Len(Sites)) : Cardinality(T) \in 3..MaxSites}}
    \cup {Skewed}

NoCall == fn = "" /\ args = <<>> /\ res = <<>>

NoRegion ==
    /\ reg = NewRegion(Pt(0, 0), <<>>, FALSE, -1) /\ orig = <<>> /\ ret = None
    /\ rerr = "" /\ lastOp = "none" /\ cents = <<>> /\ nReq = 0

Init ==
    /\ points \in Inputs
    /\ regions = <<>> /\ voronoi = <<>> /\ pc = "new" /\ err = ""
    /\ pt = <<>> /\ idx = 0 /\ nRelax = 0 /\ nReads = 0 /\ cuts = <<>> /\ relaxIn = <<>>
    /\ NoRegion /\ NoCall

\* self._voronoi = scipy.spatial.Voronoi(P) and the rest of
\* _generate_voronoi; self._regions is assigned by its last statement.
Generate(P) ==
    \E T \in {ScipyVoronoi(P)} :
        IF T.err # ""
        THEN /\ pc' = "failed" /\ err' = T.err
             /\ UNCHANGED <<voronoi, regions, cuts>>
        ELSE \E lists \in T.lists : \E g \in {GenerateRegions(P, T.unbounded, lists)} :
                 /\ voronoi' = P
                 /\ IF g.err # ""
                    THEN /\ pc' = "failed" /\ err' = g.err
                         /\ UNCHANGED <<regions, cuts>>
                    ELSE /\ pc' = "ready" /\ err' = ""
                         /\ regions' = g.regions /\ cuts' = g.cuts

\* Voronoi.__init__
Construct ==
    /\ pc = "new"
    /\ Generate(points)
    /\ UNCHANGED <<points, pt, idx, nRelax, nReads, relaxIn, rvars, cvars>>

\* the larger denominator of the coordinates of point p
Den(p) == IF p[1][2] < p[2][2] THEN p[2][2] ELSE p[1][2]

\* the bound on the numbers of the model: the boundary points of regs are
\* pairs of k/d with d <= MaxDen
Small(regs) ==
    \A i \in 1..Len(regs) : \A k \in 1..Len(regs[i].points) :
        Den(regs[i].points[k]) <= MaxDen

\* ... and so are the centroids of regs
Representable(regs) ==
    IF ~Small(regs) THEN FALSE
    ELSE \A i \in 1..Len(regs) : \A c \in {Centroid(regs[i]).ret} :
             IF c = None THEN TRUE ELSE Den(c[1]) <= MaxDen

\* for c in regions.centroids: the centroid of every region is requested
ReadCentroids ==
    /\ pc = "ready"
    /\ nReads < MaxReads
    /\ Small(regions)
    /\ regions' = List([i \in 1..Len(regions) |-> Centroid(regions[i]).reg])
    /\ nReads' = nReads + 1
    /\ UNCHANGED <<points, voronoi, pc, err, pt, idx, nRelax, cuts, relaxIn, rvars, cvars>>

\* lloyds_relax, entry: pt = [] and the iterator over self._regions
RelaxStart ==
    /\ pc = "ready"
    /\ nRelax < MaxRelax
    /\ Representable(regions)
    /\ pc' = "relax" /\ pt' = <<>> /\ idx' = 1 /\ relaxIn' = regions
    /\ nRelax' = nRelax + 1
    /\ UNCHANGED <<points, regions, voronoi, err, nReads, cuts, rvars, cvars>>

\* one turn of the loop, cent is not None: pt.append(cent)
RelaxKeep ==
    /\ pc = "relax"
    /\ idx <= Len(regions)
    /\ \E c \in {Centroid(regions[idx])} :
           /\ c.ret # None
           /\ pt' = Append(pt, c.ret[1])
           /\ regions' = [regions EXCEPT ![idx] = c.reg]
    /\ idx' = idx + 1
    /\ UNCHANGED <<points, voronoi, pc, err, nRelax, nReads, cuts, relaxIn, rvars, cvars>>

\* a list that grows where the code removes: the region is added once more
RemoveAppends(regs, k) == Append(regs, regs[k])

\* self._regions.remove(region) at position k of the list
Remove(regs, k) == SubSeq(regs, 1, k - 1) \o SubSeq(regs, k + 1, Len(regs))

\* one turn of the loop, cent is None: the region is removed from the list
\* the loop iterates over, and the iterator moves on to the next position
RelaxDrop ==
    /\ pc = "relax"
    /\ idx <= Len(regions)
    /\ Centroid(regions[idx]).ret = None
    /\ regions' = Remove(regions, idx)
    /\ idx' = idx + 1
    /\ UNCHANGED <<points, voronoi, pc, err, pt, nRelax, nReads, cuts, relaxIn, rvars, cvars>>

\* a relaxation that regenerates from pt and leaves self._points as it was
RelaxFinishStale ==
    /\ pc = "relax"
    /\ idx > Len(regions)
    /\ points' = points
    /\ Generate(pt)
    /\ UNCHANGED <<pt, idx, nRelax, nReads, relaxIn, rvars, cvars>>

\* the loop is over: self._points = pt; self._generate_voronoi()
RelaxFinish ==
    /\ pc = "relax"
    /\ idx > Len(regions)
    /\ points' = pt
    /\ Generate(pt)
    /\ UNCHANGED <<pt, idx, nRelax, nReads, relaxIn, rvars, cvars>>

Next == Construct \/ ReadCentroids \/ RelaxStart \/ RelaxKeep \/ RelaxDrop \/ RelaxFinish

Spec == Init /\ [][Next]_vars

\* a turn of the loop of lloyds_relax, seen from the iterator: it moves on
LoopTurn == pc = "relax" /\ idx <= Len(regions) /\ idx' = idx + 1 /\ pc' = pc

\* the statements after the loop, seen from outside: the call returns or raises
LoopExit == pc = "relax" /\ idx > Len(regions) /\ pc' \in {"ready", "failed"}

\* lloyds_relax is sequential code: a call that was entered takes its next
\* turn, and runs the statements after the loop when the loop is over
FairSpec == Spec /\ WF_<<pc, idx>>(LoopTurn) /\ WF_pc(LoopExit)

(***************************************************************************)
(* Stand-alone regions: Region(origin, points) and EdgeRegion(origin,      *)
(* points) built by a caller, then asked for centroid and area.            *)
(***************************************************************************)
RegionPoints == {Pt(0, 0), Pt(1, 0), Pt(1, 1), Pt(0, 1), Pt(2, 0)}

PointLists == UNION {[1..n -> RegionPoints] : n \in 0..MaxPts}

NoDiagram ==
    /\ points = <<>> /\ regions = <<>> /\ voronoi = <<>> /\ pc = "none" /\ err = ""
    /\ pt = <<>> /\ idx = 0 /\ nRelax = 0 /\ nReads = 0 /\ cuts = <<>> /\ relaxIn = <<>>

RegionInit ==
    /\ NoDiagram /\ NoCall
    /\ orig \in PointLists
    /\ \E e \in BOOLEAN : reg = NewRegion(Pt(0, 0), orig, e, -1)
    /\ ret = None /\ rerr = "" /\ lastOp = "new" /\ cents = <<>> /\ nReq = 0

\* region.centroid
RequestCentroid ==
    /\ nReq < MaxReq
    /\ \E c \in {Centroid(reg)} :
           /\ reg' = c.reg
           /\ ret' = c.ret
           /\ cents' = Append(cents, c.ret)
    /\ rerr' = ""
    /\ lastOp' = "centroid"
    /\ nReq' = nReq + 1
    /\ UNCHANGED <<orig, dvars, cvars>>

\* region.area
RequestArea ==
    /\ nReq < MaxReq
    /\ \E a \in {Area(reg)} :
           /\ reg' = a.reg
           /\ ret' = a.ret
           /\ rerr' = a.err
    /\ lastOp' = "area"
    /\ nReq' = nReq + 1
    /\ UNCHANGED <<orig, cents, dvars, cvars>>

RegionNext == RequestCentroid \/ RequestArea

RegionSpec == RegionInit /\ [][RegionNext]_vars

(***************************************************************************)
(* rotational_sort called on its own: points, ids, ccw and centre are the  *)
(* caller's; arrays tells whether the points are numpy rows (as the        *)
(* diagram passes them) or tuples.                                         *)
(***************************************************************************)
SortSites == {Pt(0, 1), Pt(0, 2), Pt(1, 0), Pt(-1, 0), Pt(1, -1), Pt(1, -2)}

\* ids=None: list(range(len(points)))
DefaultIds(n) == List([k \in 1..n |-> k - 1])

\* ids the caller supplies, here falling
FallingIds(n) == List([k \in 1..n |-> n - k])

SortInputs ==
    UNION {[points : [1..n -> SortSites], ids : {DefaultIds(n), FallingIds(n)},
            ccw : BOOLEAN, centre : {None, Some(Pt(0, 0))}, arrays : BOOLEAN] :
           n \in 0..MaxSortPts}

SortInit ==
    /\ NoDiagram /\ NoRegion
    /\ fn = "" /\ args \in SortInputs /\ res = <<>>

\* rotational_sort(points, ids, ccw, centre)
CallRotationalSort ==
    /\ fn = ""
    /\ fn' = "rotational_sort"
    /\ res' = RotationalSort(args.points, args.ids, args.ccw, args.centre, args.arrays)
    /\ UNCHANGED <<args, dvars, rvars>>

SortNext == CallRotationalSort

SortSpec == SortInit /\ [][SortNext]_vars

(***************************************************************************)
(* Vector methods called on their own, on two vectors a and b of two or    *)
(* three components.  from_points is given the component tuples of a and   *)
(* b as its points P and Q.                                                *)
(***************************************************************************)
Coords == {I(n) : n \in (-MaxCoord)..MaxCoord}

Flat == {<<x, y>> : x \in Coords, y \in Coords}

Solid == {<<I(x), I(y), I(z)>> : x \in 0..MaxCoord, y \in 0..MaxCoord, z \in 0..1}

\* Vector(*c): the origin is [0] * len(c)
VectorOf(c) == [origin |-> List([k \in 1..Len(c) |-> Zero]), components |-> c, unit |-> FALSE]

\* Vector.point_and_direction(o, c)
PointAndDirection(o, c) == [origin |-> o, components |-> c, unit |-> FALSE]

VectorInputs ==
    [a : {VectorOf(c) : c \in Flat \cup Solid} \cup {PointAndDirection(Pt(1, -1), c) : c \in Flat},
     b : {VectorOf(c) : c \in Flat \cup Solid},
     axis : {0}, val : {0}]

\* points with a first coordinate far from the others
FarFlat == {<<Far(n), I(1)>> : n \in ((-MaxCoord)..MaxCoord) \ {0}}

\* pairs of points for from_points, one of them at least in FarFlat
FarInputs ==
    [a : {VectorOf(c) : c \in Flat \cup FarFlat},
     b : {VectorOf(c) : c \in Flat \cup FarFlat},
     axis : {0}, val : {0}] \ VectorInputs

VectorInit ==
    /\ NoDiagram /\ NoRegion
    /\ fn = "" /\ args \in VectorInputs \cup FarInputs /\ res = <<>>

\* Vector.from_points(P, Q)
CallFromPoints ==
    /\ fn = ""
    /\ fn' = "from_points"
    /\ res' = VectorFromPoints(args.a.components, args.b.components)
    /\ UNCHANGED <<args, dvars, rvars>>

\* a + b
CallAdd ==
    /\ fn = "" /\ args \in VectorInputs
    /\ fn' = "add"
    /\ res' = VectorAdd(args.a, args.b)
    /\ UNCHANGED <<args, dvars, rvars>>

\* a == b
CallEq ==
    /\ fn = "" /\ args \in VectorInputs
    /\ fn' = "eq"
    /\ res' = [err |-> "", ret |-> VectorEq(args.a, args.b)]
    /\ UNCHANGED <<args, dvars, rvars>>

\* a.is_parallel(b)
CallIsParallel ==
    /\ fn = "" /\ args \in VectorInputs
    /\ fn' = "is_parallel"
    /\ res' = IsParallel(args.a.components, args.b.components)
    /\ UNCHANGED <<args, dvars, rvars>>

\* a.intersect_boundary(axis, val) for axis 'x' (1) or 'y' (2)
CallIntersectBoundary ==
    /\ fn = "" /\ args \in VectorInputs
    /\ fn' = "intersect_boundary"
    /\ \E axis \in {1, 2}, val \in {0, XLim} :
           /\ args' = [args EXCEPT !.axis = axis, !.val = val]
           /\ res' = IntersectBoundary(args.a, axis, val)
    /\ UNCHANGED <<dvars, rvars>>

VectorNext == CallFromPoints \/ CallAdd \/ CallEq \/ CallIsParallel \/ CallIntersectBoundary

VectorSpec == VectorInit /\ [][VectorNext]_vars

(***************************************************************************)
(* An EdgeRegion on its own: remove_outside_points, called up to MaxReq    *)
(* times with one pair of bounds on a region made from a list of points.   *)
(***************************************************************************)
EdgePoints == {Pt(0, 0), Pt(XLim, 5), Pt(5, YLim), <<<<2 * XLim + 1, 2>>, I(5)>>, Pt(5, -1), Pt(3, 4)}

EdgePointLists == UNION {[1..n -> EdgePoints] : n \in 0..MaxPts}

\* the bounds of the call in _generate_voronoi, and a smaller rectangle
Rectangles ==
    {[xbounds |-> <<I(0), I(XLim)>>, ybounds |-> <<I(0), I(YLim)>>],
     [xbounds |-> <<I(1), I(5)>>, ybounds |-> <<I(0), I(4)>>]}

EdgeInit ==
    /\ NoDiagram
    /\ orig \in EdgePointLists
    /\ reg = NewRegion(Pt(0, 0), orig, TRUE, -1)
    /\ ret = None /\ rerr = "" /\ lastOp = "new" /\ cents = <<>> /\ nReq = 0
    /\ fn = "" /\ args \in Rectangles /\ res = <<>>

\* region.remove_outside_points(xbounds, ybounds)
CallRemoveOutsidePoints ==
    /\ nReq < MaxReq
    /\ reg' = RemoveOutsidePoints(reg, args.xbounds, args.ybounds)
    /\ fn' = "remove_outside_points"
    /\ nReq' = nReq + 1
    /\ UNCHANGED <<orig, ret, rerr, lastOp, cents, args, res, dvars>>

EdgeNext == CallRemoveOutsidePoints

EdgeSpec == EdgeInit /\ [][EdgeNext]_vars

(***************************************************************************)
(* Properties of the diagram.                                              *)
(***************************************************************************)

\* C1: after construction and after every lloyds_relax call that returns
\* normally, the diagram has exactly one region per generator point, in
\* point order: as many regions as points, and region i has point i as its
\* origin.
OneRegionPerPoint ==
    pc = "ready" =>
        /\ Len(regions) = Len(points)
        /\ \A i \in 1..Len(regions) : regions[i].origin = points[i]

\* a relaxation has returned normally and has moved a generator
OneRegionPerPointSeen ==
    /\ pc = "ready" /\ nRelax >= 1
    /\ Len(regions) = Len(relaxIn)
    /\ \E i \in 1..Len(regions) : regions[i].origin # relaxIn[i].origin

\* the centroids that are not None of the first k regions of regs, in
\* region order
RECURSIVE SurvivingCentroids(_, _)
SurvivingCentroids(regs, k) ==
    IF k = 0 THEN <<>>
    ELSE With(Centroid(regs[k]).ret, LAMBDA cent :
             IF cent = None THEN SurvivingCentroids(regs, k - 1)
             ELSE Append(SurvivingCentroids(regs, k - 1), cent[1]))

\* C2: a lloyds_relax call replaces the point list by the centroids of the
\* regions it found whose centroid is not None, in region order, whatever
\* the region list was.
RelaxKeepsSurvivors ==
    (nRelax >= 1 /\ pc \in {"ready", "failed"}) =>
        points = SurvivingCentroids(relaxIn, Len(relaxIn))

\* C3: the number of regions never grows from one lloyds_relax call to the
\* next (no step after construction adds a region), and every call that
\* was entered comes to its end.
RelaxShrinksAndEnds ==
    /\ [][pc # "new" => Len(regions') <= Len(regions)]_vars
    /\ (pc = "relax") ~> (pc # "relax")

\* a call has come to its end with fewer regions than it found
RelaxShrinksAndEndsSeen ==
    /\ pc # "relax" /\ nRelax >= 1
    /\ Len(regions) < Len(relaxIn)

\* C4: when the generation is complete, every boundary point of every
\* region lies in the closed domain [0, XLim] x [0, YLim].
PointsInDomain ==
    pc = "ready" =>
        \A i \in 1..Len(regions) : \A k \in 1..Len(regions[i].points) :
            InDomain(regions[i].points[k])

\* a generated diagram with an edge region that was given a vertex outside
\* the domain by the tessellation
PointsInDomainSeen ==
    /\ pc = "ready"
    /\ \E D \in {Delaunay(voronoi)} : \E i \in 1..Len(regions) :
           /\ regions[i].edge
           /\ regions[i].points # <<>>
           /\ \E vertex \in RegionVertices(voronoi, D, i) : ~InDomain(vertex)

\* C5: for generators inside the domain, the intersect of every pair
\* (u, v) of the pair loop is in the final point list of u and in that
\* of v.
PairsShareCut ==
    (pc = "ready" /\ \A i \in 1..Len(voronoi) : InDomain(voronoi[i])) =>
        \A c \in 1..Len(cuts) :
            /\ \E k \in 1..Len(regions[cuts[c].u].points) :
                   regions[cuts[c].u].points[k] = cuts[c].point
            /\ \E k \in 1..Len(regions[cuts[c].v].points) :
                   regions[cuts[c].v].points[k] = cuts[c].point

\* a generated diagram of generators inside the domain whose loop has
\* pairs of two different regions
PairsShareCutSeen ==
    /\ pc = "ready"
    /\ \A i \in 1..Len(voronoi) : InDomain(voronoi[i])
    /\ Len(cuts) >= 3
    /\ \E c \in 1..Len(cuts) : cuts[c].u # cuts[c].v

\* the sum of the areas the first k regions of regs report
RECURSIVE AreaSum(_, _)
AreaSum(regs, k) ==
    IF k = 0 THEN Zero ELSE RAdd(AreaSum(regs, k - 1), Area(regs[k]).ret[1])

\* C6: for a generated diagram of at least four generators whose mean lies
\* strictly inside the domain, every region reports an area and the areas
\* add up to XLim * YLim.
AreasSumToDomain ==
    (/\ pc = "ready" /\ Len(points) >= 4 /\ Small(regions)
     /\ \E m \in {Mean(points)} :
            /\ RLt(Zero, m[1]) /\ RLt(m[1], I(XLim))
            /\ RLt(Zero, m[2]) /\ RLt(m[2], I(YLim)))
    => IF \E i \in 1..Len(regions) : Area(regions[i]).err # "" THEN FALSE
       ELSE AreaSum(regions, Len(regions)) = I(XLim * YLim)

\* C10: the centroid of a region marked as edge is its origin (so that a
\* relaxation leaves the generator of an edge region where it is).
EdgeCentroidIsOrigin ==
    (pc = "ready" /\ Small(regions)) =>
        \A i \in 1..Len(regions) :
            regions[i].edge => Centroid(regions[i]).ret = Some(regions[i].origin)

(***************************************************************************)
(* Properties of a stand-alone region.                                     *)
(***************************************************************************)

\* the signed shoelace area A of the closed polygon over the point list ps
SignedArea(ps) ==
    With(Append(ps, ps[1]), LAMBDA closed :
        RDiv(Accumulate(closed, Len(closed) - 1).A, I(2)))

\* C7: the area requested of a region whose centroid was never requested
\* is the absolute shoelace area |A| of its points: 1 for the unit square,
\* 0 for collinear points.
AreaOnFirstRequest ==
    (lastOp = "area" /\ nReq = 1 /\ orig # <<>>) =>
        rerr = "" /\ ret = Some(RAbs(SignedArea(orig)))

\* C8: when the shoelace area is 0, the centroid is the mean of the
\* region's points, each point counted once ((a + b) / 2 for [a, b]).
DegenerateCentroidIsMean ==
    (lastOp = "centroid" /\ nReq = 1 /\ orig # <<>>) =>
        IF SignedArea(orig) = Zero THEN ret = Some(Mean(orig)) ELSE TRUE

\* C9: every centroid request on a region returns what the first returned.
CentroidCached ==
    \A k \in 1..Len(cents) : cents[k] = cents[1]

(***************************************************************************)
(* Properties of rotational_sort.                                          *)
(***************************************************************************)

\* C11: rotational_sort reorders ids as it reorders points: the output is
\* the input pairs (point, id) in some order, so that newpoints is a
\* permutation of points and newids[i] is the id given with newpoints[i],
\* also when points have equal angles around the centre.
IdsFollowPoints ==
    (fn = "rotational_sort" /\ res.err = "") =>
        \E f \in [1..Len(args.points) -> 1..Len(args.points)] :
            /\ \A i, j \in 1..Len(args.points) : f[i] = f[j] => i = j
            /\ \A i \in 1..Len(args.points) :
                   /\ res.newpoints[i] = args.points[f[i]]
                   /\ res.newids[i] = args.ids[f[i]]

\* the centre the points are sorted around
SortCentre == IF args.centre = None THEN Mean(args.points) ELSE args.centre[1]

\* the clockwise angle of p from the ray straight up from the centre c
ClockwiseFromUp(c, p) == Angle(c, I(1), p)

\* C12: for a centre (given, or the mean) that is none of the points,
\* rotational_sort returns the points by their clockwise angle from the
\* ray straight up from the centre: never falling, and never rising when
\* ccw is set.
SortedClockwise ==
    (/\ fn = "rotational_sort" /\ args.points # <<>>
     /\ \A k \in 1..Len(args.points) : args.points[k] # SortCentre)
    => IF res.err # "" THEN FALSE
       ELSE \A i, j \in 1..Len(res.newpoints) :
                i < j => IF args.ccw
                         THEN ~AngleLt(ClockwiseFromUp(SortCentre, res.newpoints[i]),
                                       ClockwiseFromUp(SortCentre, res.newpoints[j]))
                         ELSE ~AngleLt(ClockwiseFromUp(SortCentre, res.newpoints[j]),
                                       ClockwiseFromUp(SortCentre, res.newpoints[i]))

(***************************************************************************)
(* Properties of Vector.                                                   *)
(***************************************************************************)

\* q - p of from_points and p + (q - p) of endpoint are both exact
ExactDifference(p, q) == IsFar(p) = IsFar(q) \/ p = Zero \/ q = Zero

\* C13 as amended: for points P and Q of equal dimension
\* Vector.from_points(P, Q) has origin P and the float differences q - p
\* as components, and its endpoint has the coordinate of Q wherever the
\* difference is exact; for points of different dimensions it raises the
\* dimension error and makes no vector.
FromPointsJoinsWhereExact ==
    fn = "from_points" =>
        IF Len(args.a.components) = Len(args.b.components)
        THEN /\ res.err = ""
             /\ res.vec[1].origin = args.a.components
             /\ res.vec[1].components = Sub(args.b.components, args.a.components)
             /\ \A k \in 1..Len(args.a.components) :
                    ExactDifference(args.a.components[k], args.b.components[k])
                    => Endpoint(res.vec[1])[k] = args.b.components[k]
        ELSE res.err = "ValueError" /\ res.vec = None

\* C13: for points P and Q of equal dimension Vector.from_points(P, Q) has
\* origin P and endpoint Q; for points of different dimensions it raises
\* the dimension error and makes no vector.
FromPointsJoins ==
    fn = "from_points" =>
        IF Len(args.a.components) = Len(args.b.components)
        THEN /\ res.err = ""
             /\ res.vec[1].origin = args.a.components
             /\ Endpoint(res.vec[1]) = args.b.components
        ELSE res.err = "ValueError" /\ res.vec = None

\* a vector was made between two different points of equal dimension with
\* an exact difference, the first of them not the origin
FromPointsJoinsSeen ==
    /\ fn = "from_points" /\ res.err = ""
    /\ \E k \in 1..Len(args.a.components) :
           /\ args.a.components[k] \notin {Zero, args.b.components[k]}
           /\ args.b.components[k] # Zero
           /\ ExactDifference(args.a.components[k], args.b.components[k])

\* C14: a + b has the sums of the components of a and of b as its
\* components, whichever operand comes first.
AddSumsComponents ==
    (fn = "add" /\ Len(args.a.components) = Len(args.b.components)) =>
        IF res.err # "" \/ VectorAdd(args.b, args.a).err # "" THEN FALSE
        ELSE /\ res.vec[1].components =
                    List([k \in 1..Len(args.a.components) |->
                             RAdd(args.a.components[k], args.b.components[k])])
             /\ VectorAdd(args.b, args.a).vec[1].components = res.vec[1].components

\* C15: a == b exactly when the component tuples of a and b are equal,
\* whatever the origins.
EqualByComponents ==
    fn = "eq" => (res.ret <=> args.a.components = args.b.components)

\* a is a multiple of b or b of a: every 2 x 2 minor of the two component
\* tuples is zero
Multiple(a, b) ==
    \A i, j \in 1..Len(a) : RMul(a[i], b[j]) = RMul(a[j], b[i])

NonZero(c) == \E k \in 1..Len(c) : c[k] # Zero

\* C16: for nonzero vectors of equal dimension a.is_parallel(b) raises
\* nothing, tells whether a is a multiple of b, and b.is_parallel(a) gives
\* the same.
ParallelIsStandard ==
    (/\ fn = "is_parallel" /\ Len(args.a.components) = Len(args.b.components)
     /\ NonZero(args.a.components) /\ NonZero(args.b.components))
    => IF res.err # "" THEN FALSE
       ELSE /\ res.ret <=> Multiple(args.a.components, args.b.components)
            /\ IsParallel(args.b.components, args.a.components) = res

\* C17: for a direction that is not parallel to the line axis = val,
\* intersect_boundary returns a point with val on that axis that lies on
\* the line through the origin along the direction.
IntersectOnBoundary ==
    (fn = "intersect_boundary" /\ args.a.components[args.axis] # Zero) =>
        IF res.err # "" THEN FALSE
        ELSE /\ res.point[1][args.axis] = I(args.val)
             /\ Cross2(Sub(res.point[1], SubSeq(args.a.origin, 1, 2)),
                       SubSeq(args.a.components, 1, 2)) = Zero

\* C18: for a nonzero direction parallel to the line axis = val, whether
\* of two or of three components, intersect_boundary raises the error of
\* the parallel test.
ParallelIsRefused ==
    (/\ fn = "intersect_boundary" /\ args.a.components[args.axis] = Zero
     /\ NonZero(args.a.components))
    => res.err = "ValueError"

(***************************************************************************)
(* Properties of EdgeRegion.                                               *)
(***************************************************************************)

\* p is in the closed rectangle of the call
InRectangle(p) ==
    /\ RCmp(p[1], args.xbounds[1]) >= 0 /\ RCmp(p[1], args.xbounds[2]) <= 0
    /\ RCmp(p[2], args.ybounds[1]) >= 0 /\ RCmp(p[2], args.ybounds[2]) <= 0

\* C19: after remove_outside_points(xbounds, ybounds) the region has
\* exactly the points of its list that lie in the closed rectangle, the
\* border included, in the order they had, and a further call with the
\* same bounds changes nothing.
RemoveKeepsRectangle ==
    fn = "remove_outside_points" =>
        /\ reg.points = SelectSeq(orig, InRectangle)
        /\ RemoveOutsidePoints(reg, args.xbounds, args.ybounds) = reg

\* a second call has returned on a region that lost a point and kept
\* two, one of them on the border of the rectangle
RemoveKeepsRectangleSeen ==
    /\ fn = "remove_outside_points" /\ nReq = 2
    /\ Len(reg.points) < Len(orig) /\ Len(reg.points) >= 2
    /\ \E k \in 1..Len(reg.points) :
           reg.points[k][1] \in {args.xbounds[1], args.xbounds[2]}

(***************************************************************************)
(* Properties of the classification.                                       *)
(***************************************************************************)

\* a finite vertex of the region of generator i lies outside the domain;
\* D is the triangulation of the generators
VertexOutsideIn(D, i) == \E v \in RegionVertices(voronoi, D, i) : ~InDomain(v)

VertexOutside(i) == VertexOutsideIn(Delaunay(voronoi), i)

\* the regions have the flags of the classification
Classified(D) ==
    \A i \in 1..Len(regions) :
        regions[i].edge <=> (VertexOutsideIn(D, i) \/ Unbounded(voronoi, i))

\* a step that ends a generation: the constructor, or the end of a
\* lloyds_relax call
GenerationStep == pc = "new" \/ (pc = "relax" /\ pc' # "relax")

\* every region after the step is a region from before it, with the edge
\* flag it had
FlagsKept ==
    \A i \in 1..Len(regions') : \E j \in 1..Len(regions) :
        /\ regions'[i].id = regions[j].id
        /\ regions'[i].origin = regions[j].origin
        /\ regions'[i].edge = regions[j].edge

\* C20: a generation makes the region of a generator an EdgeRegion exactly
\* when one of its finite vertices lies outside [0, XLim] x [0, YLim] or
\* the region is unbounded (its vertex list holds -1), a plain Region
\* otherwise; and no step other than a generation changes the edge flag of
\* a region.
EdgeIffOutsideOrUnbounded ==
    /\ [](pc = "ready" => \E D \in {Delaunay(voronoi)} : Classified(D))
    /\ [][~GenerationStep => FlagsKept]_vars

\* a generation has made a plain Region and an EdgeRegion whose finite
\* vertices are all in the domain
EdgeIffOutsideOrUnboundedSeen ==
    /\ pc = "ready"
    /\ \E i \in 1..Len(regions) : ~regions[i].edge
    /\ \E i \in 1..Len(regions) : regions[i].edge /\ ~VertexOutside(i)

(***************************************************************************)
(* Properties of the outer loop and of the clip points.                    *)
(***************************************************************************)

\* the outer loop of the last generation without its closing member: the
\* first regions of the pairs, in the order the pairs were handled
Loop == List([k \in 1..Len(cuts) |-> cuts[k].u])

\* the clockwise angle of the origin of region i from the ray straight up
\* from the centroid of all the generator points
AngleAroundAll(i) == ClockwiseFromUp(Mean(points), regions[i].origin)

\* C21: the outer loop holds every edge region once, in the order of the
\* angles of their origins around the centroid of all the generator points,
\* and is closed by its first member: each pair starts where the pair
\* before it ended, and the last pair ends where the first started.
LoopAroundAllPoints ==
    (/\ pc = "ready" /\ \E i \in 1..Len(regions) : regions[i].edge
     /\ \A i \in 1..Len(regions) : regions[i].origin # Mean(points))
    => /\ Len(Loop) = Cardinality({i \in 1..Len(regions) : regions[i].edge})
       /\ \A i \in 1..Len(regions) : regions[i].edge => \E k \in 1..Len(Loop) : Loop[k] = i
       /\ \A k \in 1..Len(cuts) : cuts[k].v = Loop[(k % Len(cuts)) + 1]
       /\ \A j, k \in 1..Len(Loop) :
              j < k => ~AngleLt(AngleAroundAll(Loop[k]), AngleAroundAll(Loop[j]))

\* the midpoint of the origins of the regions of pair c
MidPoint(c) ==
    PointAlong(FromPoints(regions[c.u].origin, regions[c.v].origin), Rat(1, 2))

\* the direction of the outward vector of pair c: UV x (0, 0, -1)
OutwardOf(c) ==
    Outward(FromPoints(regions[c.u].origin, regions[c.v].origin)).vec.components

\* p is on the border of the rectangle [0, XLim] x [0, YLim]
OnBorder(p) ==
    /\ InDomain(p)
    /\ p[1] \in {I(0), I(XLim)} \/ p[2] \in {I(0), I(YLim)}

\* the sign of the dot product of q - p with the direction d
Ahead(p, q, d) ==
    RSgn(RAdd(RMul(RSub(q[1], p[1]), d[1]), RMul(RSub(q[2], p[2]), d[2])))

\* C22: for every pair of the outer loop whose midpoint is inside the
\* domain, the clip point lies on the border of the rectangle and on the
\* outward side of the midpoint: its offset from the midpoint has a
\* non-negative dot product with the outward vector.
ClipIsOutward ==
    pc = "ready" =>
        \A k \in 1..Len(cuts) :
            (cuts[k].u # cuts[k].v /\ InDomain(MidPoint(cuts[k]))) =>
                /\ OnBorder(cuts[k].point)
                /\ Ahead(MidPoint(cuts[k]), cuts[k].point, OutwardOf(cuts[k])) >= 0

\* the regions the classification makes of the generators P, with the
\* vertex lists in one of the orders the library may give
MadeRegions(P) ==
    With(ScipyVoronoi(P), LAMBDA T :
        IF T.err # "" THEN <<>>
        ELSE With(CHOOSE lists \in T.lists : TRUE, LAMBDA lists :
                 List([i \in 1..Len(P) |-> Classify(P[i], lists[i], T.unbounded[i], i).reg])))

\* the outer loop of the regions regs, <<>> when there is none
CircleOf(regs, region_ids) ==
    IF region_ids = <<>> THEN <<>>
    ELSE With(RotationalSort(List([k \in 1..Len(region_ids) |-> regs[region_ids[k]].origin]),
                             List([k \in 1..Len(region_ids) |-> k]), FALSE, None, TRUE),
              LAMBDA sorted :
                  IF sorted.err # "" THEN <<>> ELSE Circle(region_ids, sorted.newids))

\* no pair of two different origins of the loop circle fails to get its
\* clip point
PairsAreClipped(regs, circle) ==
    \A k \in 1..(Len(circle) - 1) :
        regs[circle[k]].origin # regs[circle[k + 1]].origin
        => ClipPoint(regs[circle[k]].origin, regs[circle[k + 1]].origin).err = ""

\* C23: a generation never fails while it clips a pair of regions with two
\* different origins: a boundary line whose intersect fails is passed
\* over, and one of the four lines always gives an intersect.
ClipNeverAborts ==
    (pc = "failed" /\ voronoi # <<>>) =>
        \E regs \in {MadeRegions(voronoi)} :
            PairsAreClipped(regs, CircleOf(regs, EdgeIds(regs, Len(regs))))

(***************************************************************************)
(* Properties of the effects of requests and of failures.                  *)
(***************************************************************************)

\* C24: the centroid and area requests leave the point list of the region
\* as it was built: after any number of requests region.points is the list
\* the region was made from.
RequestsKeepPoints ==
    lastOp \in {"centroid", "area"} => reg.points = orig

\* the origins of the regions regs, in their order
Origins(regs) == List([i \in 1..Len(regs) |-> regs[i].origin])

\* C25: when the generation of a lloyds_relax call fails, the diagram is
\* as the call found it: the regions are those of the generation before,
\* and the points and the stored tessellation are their generators.
FailedRelaxKeepsDiagram ==
    (pc = "failed" /\ nRelax >= 1) =>
        /\ points = Origins(relaxIn)
        /\ voronoi = Origins(relaxIn)
        /\ Origins(regions) = Origins(relaxIn)

====
